---- MODULE Spec2Model ----
(***************************************************************************)
(* A model of the diagnostic-driven repair scripts of the forge-app:       *)
(*   anchor_fix.py       shim guard, type-check, stage 4A (TS2578 line     *)
(*                       removal), stage 4B (TS2307 import rewrite), logs  *)
(*   remove_ts_expect.py per-file removal of stale @ts-expect-error lines  *)
(*   mech_fix.py         the mechanical import-insertion pass              *)
(*                                                                         *)
(* A source file is a sequence of lines.  A line is a record               *)
(*   [src |-> n, dir |-> BOOLEAN, imp |-> [q, mod]]                        *)
(* src stands for the text of the line (distinct numbers: distinct text),  *)
(* dir says whether the text contains '@ts-expect-error', imp is the       *)
(* quoted module specifier on the line (q = "" when there is none).        *)
(*                                                                         *)
(* A path below the importing file's directory is a sequence of names, a   *)
(* name a pair <<stem, suffix>>; a module specifier is [dot, path] where   *)
(* dot says that the text starts with "./".                                *)
(*                                                                         *)
(* For mech_fix.py a file is a sequence of lines [toks, nl]: toks are the  *)
(* pieces of text on the line, nl says whether the line ends with a        *)
(* newline (only the last line of a file may lack it).                     *)
(***************************************************************************)
EXTENDS Integers, Sequences, FiniteSets, TLC

VARIABLES
    prog,          \* which script this behaviour runs
    pc,            \* position of the script
    run,           \* 1 for the first invocation, 2 for the second
    exitCode,      \* -1 while running, else the process exit code
    shim,          \* src/types/forge-shims.d.ts: NoFile or its lines
    audit,         \* 01_dts_audit.txt, the guard's part
    checkerRuns,   \* number of 'npm run type-check' invocations in this run
    output,        \* what the checker prints for this tree
    anchor_lines,  \* anchor_fix.py: anchor_lines
    fs,            \* the source files under the project root
    disk,          \* the other paths that exist next to the source files
    hits,          \* hits_2578 / hits_2307 / hits of the stage in progress
    i,             \* index of the next hit of the loop in progress
    removed,       \* removed
    log4a,         \* 04a_ts2578.txt
    fixed,         \* fixed
    skipped,       \* skipped
    count,         \* count
    cand,          \* cand (the path of base / mod), of the last hit probed
    exists,        \* exists, of the last hit probed
    log4b,         \* 04b_ts2307.txt
    writes,        \* every write_text to a source file, in order
    fs0,           \* the tree when the run in progress started
    txt,           \* mech_fix.py: txt of the file in progress
    orig,          \* mech_fix.py: orig
    updated        \* mech_fix.py: updated

vars == <<prog, pc, run, exitCode, shim, audit, checkerRuns, output,
          anchor_lines, fs, disk, hits, i, removed, log4a, fixed, skipped,
          count, cand, exists, log4b, writes, fs0, txt, orig, updated>>

----------------------------------------------------------------------------
(* Bounds of the model *)

MaxLines == 3
MaxHits == 2
MaxShimLines == 2
MaxMechLines == 3
ClaimAnchors == 30

(* Literals of the scripts *)

Cap2578 == 20
Cap2307 == 15
CapSkipLog == 50
CapRemove == 200
ImportScan == 80

----------------------------------------------------------------------------
(* Helpers on sequences *)

Min(a, b) == IF a < b THEN a ELSE b

\* s[:n]
Take(s, n) == SubSeq(s, 1, Min(n, Len(s)))

\* the list after pop(idx), idx 0-based and in range
Pop(s, idx) == SubSeq(s, 1, idx) \o SubSeq(s, idx + 2, Len(s))

Range(s) == {s[k] : k \in 1..Len(s)}

SeqsUpTo(S, n) == UNION {[1..k -> S] : k \in 0..n}

\* a file that does not exist, and a file with the given lines
NoFile == [there |-> FALSE, lines |-> <<>>]
File(ls) == [there |-> TRUE, lines |-> ls]

FileA == "src/a.ts"
FileB == "src/b.ts"
Files == {FileA, FileB}

----------------------------------------------------------------------------
(* anchor_fix.py: the shim guard.  A shim line is one of                   *)
(*   "declmod"  a line that starts (after blanks) with 'declare module '   *)
(*   "inline"   a line that holds 'declare module ' elsewhere              *)
(*   "global"   a line that holds a forbidden pattern ('declare global')   *)
(*   "other"    any other line                                             *)

ShimKinds == {"declmod", "inline", "global", "other"}

\* re.search(r'declare global|interface Window|...', s)
Forbidden(s) == \E k \in 1..Len(s.lines) : s.lines[k] = "global"

\* re.search(r'^\s*declare module ', s, re.M)
HasModuleDecl(s) == \E k \in 1..Len(s.lines) : s.lines[k] = "declmod"

IsForbiddenLine(l) == l = "global"

\* the exit code the guard ends the run with, 0 when it lets the run go on
GuardAlwaysPasses(s) == 0

GuardVerdict(s) ==
    IF ~s.there THEN 0
    ELSE IF Forbidden(s) THEN 2
    ELSE IF ~HasModuleDecl(s) THEN 3
    ELSE 0

\* the text appended to 01_dts_audit.txt
GuardAudit(s) ==
    IF ~s.there THEN <<>>
    ELSE IF Forbidden(s)
        THEN <<"ERROR: forbidden content">> \o SelectSeq(s.lines, IsForbiddenLine)
    ELSE IF ~HasModuleDecl(s)
        THEN <<"ERROR: shim does not contain module declarations">> \o s.lines
    ELSE <<>>

----------------------------------------------------------------------------
(* anchor_fix.py: checker output and anchors.  A line of checker output is *)
(*   [code |-> "TS2578", file, line]   a stale-suppression diagnostic      *)
(*   [code |-> "TS2307", file, mod]    a module-not-found diagnostic       *)
(*   [code |-> "TS6133", file, line]   a diagnostic kept for the report    *)
(*   [code |-> "text"]                 a line that matches no pattern      *)

IsAnchorLine(d) == d.code # "text"
Is2578(d) == d.code = "TS2578"
Is2307(d) == d.code = "TS2307"

\* anchor_lines = [ln for ln in text.splitlines() if re.search(...)]
AnchorLines(out) == SelectSeq(out, IsAnchorLine)

Hit2578(d) == <<d.file, d.line>>
Hit2307(d) == <<d.file, d.mod>>

\* hits_2578 before the cap
AllHits2578(al) ==
    LET sel == SelectSeq(al, Is2578)
    IN  [k \in 1..Len(sel) |-> Hit2578(sel[k])]

\* hits_2578 = hits_2578[:20]
Hits2578(al) == Take(AllHits2578(al), Cap2578)

\* hits_2307
Hits2307(al) ==
    LET sel == SelectSeq(al, Is2307)
    IN  [k \in 1..Len(sel) |-> Hit2307(sel[k])]

----------------------------------------------------------------------------
(* Stage 4A, one anchor *)

\* 0 <= idx < len(lines) and '@ts-expect-error' in lines[idx]
Removable(lines, lineno) ==
    /\ 0 <= lineno - 1
    /\ lineno - 1 < Len(lines)
    /\ lines[lineno].dir

\* lines.pop(idx) when the test passes, else the lines as they are
RemoveLine(lines, lineno) ==
    IF Removable(lines, lineno) THEN Pop(lines, lineno - 1) ELSE lines

----------------------------------------------------------------------------
(* Stage 4B: paths, specifiers, resolution *)

NoPath == <<>>
NoMod == [dot |-> FALSE, path |-> <<>>]
NoImp == [q |-> "", mod |-> NoMod]

Nm(stem, suf) == <<stem, suf>>
DotDot == Nm("..", "")

\* the path of a source file, relative to the directory of the source files
PathOf(f) == IF f = FileA THEN <<Nm("a", ".ts")>> ELSE <<Nm("b", ".ts")>>

\* str.startswith('.') of a path's text
PathStartsWithDot(p) == p # <<>> /\ Head(p) = DotDot

\* mod.startswith('.')
IsRelative(mod) == mod.dot \/ PathStartsWithDot(mod.path)

\* Path.with_suffix
WithSuffix(p, suf) == [p EXCEPT ![Len(p)] = Nm(p[Len(p)][1], suf)]

\* options = [cand.with_suffix('.ts'), cand.with_suffix('.tsx'),
\*            cand / 'index.ts', cand / 'index.tsx'],  cand = base / mod
OptionsTsxFirst(mod) ==
    << WithSuffix(mod.path, ".tsx"), WithSuffix(mod.path, ".ts"),
       Append(mod.path, Nm("index", ".tsx")), Append(mod.path, Nm("index", ".ts")) >>

Options(mod) ==
    << WithSuffix(mod.path, ".ts"), WithSuffix(mod.path, ".tsx"),
       Append(mod.path, Nm("index", ".ts")), Append(mod.path, Nm("index", ".tsx")) >>

\* Path.exists()
PathExists(p, tree, others) ==
    \/ p \in others
    \/ \E f \in Files : tree[f].there /\ p = PathOf(f)

\* the probing loop: the first option that exists, NoPath when none does
FirstExisting(opts, tree, others) ==
    IF \E k \in 1..Len(opts) : PathExists(opts[k], tree, others)
    THEN opts[CHOOSE k \in 1..Len(opts) :
                /\ PathExists(opts[k], tree, others)
                /\ \A j \in 1..(k - 1) : ~PathExists(opts[j], tree, others)]
    ELSE NoPath

\* for ext in ['.ts', '.tsx']: strip it when the text ends with it
StripExt(p) ==
    IF p[Len(p)][2] \in {".ts", ".tsx"} THEN WithSuffix(p, "") ELSE p

\* strip a trailing '/index'
StripIndex(p) ==
    IF Len(p) >= 2 /\ p[Len(p)] = Nm("index", "") THEN SubSeq(p, 1, Len(p) - 1)
    ELSE p

\* new_mod, from the path found
NewMod(found) ==
    LET rel_no_ext == StripIndex(StripExt(found))
    IN  [dot |-> ~PathStartsWithDot(rel_no_ext), path |-> rel_no_ext]

\* str.replace of the specifier quoted with q
ReplaceQuoted(lines, q, mod, new_mod) ==
    [k \in 1..Len(lines) |->
        IF lines[k].imp.q = q /\ lines[k].imp.mod = mod
        THEN [lines[k] EXCEPT !.imp.mod = new_mod]
        ELSE lines[k]]

\* ptext2
Rewrite(lines, mod, new_mod) ==
    ReplaceQuoted(ReplaceQuoted(lines, "'", mod, new_mod), "\"", mod, new_mod)

\* the text of 04b_ts2307.txt
Log4B(fx, sk) ==
    [k \in 1..Len(fx) |-> <<"FIXED import:", fx[k][1], fx[k][2], fx[k][3]>>]
    \o [k \in 1..Min(Len(sk), CapSkipLog) |-> <<"SKIP:", sk[k][1], sk[k][2], sk[k][3]>>]

\* the text of 04a_ts2578.txt
Log4A(rm) == [k \in 1..Len(rm) |-> <<"REMOVED", rm[k][1], "line", rm[k][2]>>]

----------------------------------------------------------------------------
(* anchor_fix.py: the run *)

mechVars == <<txt, orig, updated>>
envVars == <<prog, run, shim, output, disk, fs0>>
stage4BVars == <<fixed, skipped, count, cand, exists, log4b>>

\* lines 29-45: the guard ends the run
GuardAbort ==
    /\ prog = "anchor_fix" /\ pc = "guard"
    /\ GuardVerdict(shim) # 0
    /\ audit' = GuardAudit(shim)
    /\ exitCode' = GuardVerdict(shim)
    /\ pc' = "exit"
    /\ UNCHANGED <<envVars, stage4BVars, mechVars, checkerRuns, anchor_lines,
                   fs, hits, i, removed, log4a, writes>>

\* lines 29-45: no shim, or a shim the guard accepts
GuardPass ==
    /\ prog = "anchor_fix" /\ pc = "guard"
    /\ GuardVerdict(shim) = 0
    /\ audit' = GuardAudit(shim)
    /\ pc' = "typecheck"
    /\ UNCHANGED <<envVars, stage4BVars, mechVars, exitCode, checkerRuns,
                   anchor_lines, fs, hits, i, removed, log4a, writes>>

\* lines 47-65: run the checker, extract the anchors, collect hits_2578
TypeCheck ==
    /\ prog = "anchor_fix" /\ pc = "typecheck"
    /\ checkerRuns' = checkerRuns + 1
    /\ anchor_lines' = AnchorLines(output)
    /\ hits' = Hits2578(anchor_lines')
    /\ i' = 1
    /\ removed' = <<>>
    /\ pc' = "4A"
    /\ UNCHANGED <<envVars, stage4BVars, mechVars, exitCode, audit, fs, log4a,
                   writes>>

\* lines 66-69: the file of the anchor does not exist
Skip4AMissing ==
    /\ prog = "anchor_fix" /\ pc = "4A" /\ i <= Len(hits)
    /\ ~fs[hits[i][1]].there
    /\ i' = i + 1
    /\ UNCHANGED <<envVars, stage4BVars, mechVars, pc, exitCode, audit,
                   checkerRuns, anchor_lines, fs, hits, removed, log4a, writes>>

\* lines 66-72: the line is out of range or does not bear the directive
Skip4ANoDirective ==
    /\ prog = "anchor_fix" /\ pc = "4A" /\ i <= Len(hits)
    /\ fs[hits[i][1]].there
    /\ ~Removable(fs[hits[i][1]].lines, hits[i][2])
    /\ i' = i + 1
    /\ UNCHANGED <<envVars, stage4BVars, mechVars, pc, exitCode, audit,
                   checkerRuns, anchor_lines, fs, hits, removed, log4a, writes>>

\* lines 66-75: pop the line, write the file, record the removal
Remove4A ==
    /\ prog = "anchor_fix" /\ pc = "4A" /\ i <= Len(hits)
    /\ fs[hits[i][1]].there
    /\ Removable(fs[hits[i][1]].lines, hits[i][2])
    /\ fs' = [fs EXCEPT ![hits[i][1]].lines = RemoveLine(@, hits[i][2])]
    /\ writes' = Append(writes, [file |-> hits[i][1], stage |-> "4A", hit |-> i])
    /\ removed' = Append(removed, hits[i])
    /\ i' = i + 1
    /\ UNCHANGED <<envVars, stage4BVars, mechVars, pc, exitCode, audit,
                   checkerRuns, anchor_lines, hits, log4a>>

\* lines 76-87: write 04a_ts2578.txt, collect hits_2307
End4A ==
    /\ prog = "anchor_fix" /\ pc = "4A" /\ i > Len(hits)
    /\ log4a' = Log4A(removed)
    /\ hits' = Hits2307(anchor_lines)
    /\ fixed' = <<>> /\ skipped' = <<>> /\ count' = 0
    /\ i' = 1
    /\ pc' = "4B"
    /\ UNCHANGED <<envVars, mechVars, exitCode, audit, checkerRuns,
                   anchor_lines, fs, removed, cand, exists, log4b, writes>>

\* lines 88-91
SkipNonRelative ==
    /\ prog = "anchor_fix" /\ pc = "4B" /\ i <= Len(hits)
    /\ ~IsRelative(hits[i][2])
    /\ skipped' = Append(skipped, <<hits[i][1], hits[i][2], "non-relative">>)
    /\ i' = i + 1
    /\ UNCHANGED <<envVars, mechVars, pc, exitCode, audit, checkerRuns,
                   anchor_lines, fs, hits, removed, log4a, fixed, count, cand,
                   exists, log4b, writes>>

\* lines 92-94: the relative hit after the last one attempted ends the loop
CapBreak ==
    /\ prog = "anchor_fix" /\ pc = "4B" /\ i <= Len(hits)
    /\ IsRelative(hits[i][2])
    /\ count + 1 > Cap2307
    /\ count' = count + 1
    /\ pc' = "log"
    /\ UNCHANGED <<envVars, mechVars, exitCode, audit, checkerRuns,
                   anchor_lines, fs, hits, i, removed, log4a, fixed, skipped,
                   cand, exists, log4b, writes>>

\* a relative hit within the cap
Attempt ==
    /\ prog = "anchor_fix" /\ pc = "4B" /\ i <= Len(hits)
    /\ IsRelative(hits[i][2])
    /\ count + 1 <= Cap2307

\* lines 95-104, 118-119: no option exists
TargetMissing ==
    /\ Attempt
    /\ FirstExisting(Options(hits[i][2]), fs, disk) = NoPath
    /\ count' = count + 1
    /\ cand' = hits[i][2].path
    /\ exists' = NoPath
    /\ skipped' = Append(skipped, <<hits[i][1], hits[i][2], "target-missing">>)
    /\ i' = i + 1
    /\ UNCHANGED <<envVars, mechVars, pc, exitCode, audit, checkerRuns,
                   anchor_lines, fs, hits, removed, log4a, fixed, log4b, writes>>

\* lines 95-113: an option exists, the importing file does not: read_text raises
ReadFails ==
    /\ Attempt
    /\ FirstExisting(Options(hits[i][2]), fs, disk) # NoPath
    /\ ~fs[hits[i][1]].there
    /\ count' = count + 1
    /\ cand' = hits[i][2].path
    /\ exists' = FirstExisting(Options(hits[i][2]), fs, disk)
    /\ exitCode' = 1
    /\ pc' = "exit"
    /\ UNCHANGED <<envVars, mechVars, audit, checkerRuns, anchor_lines, fs,
                   hits, i, removed, log4a, fixed, skipped, log4b, writes>>

\* lines 95-115: an option exists and the rewrite changes nothing
NoRewrite ==
    /\ Attempt
    /\ FirstExisting(Options(hits[i][2]), fs, disk) # NoPath
    /\ fs[hits[i][1]].there
    /\ LET found == FirstExisting(Options(hits[i][2]), fs, disk)
           ptext == fs[hits[i][1]].lines
       IN  /\ Rewrite(ptext, hits[i][2], NewMod(found)) = ptext
           /\ exists' = found
    /\ count' = count + 1
    /\ cand' = hits[i][2].path
    /\ i' = i + 1
    /\ UNCHANGED <<envVars, mechVars, pc, exitCode, audit, checkerRuns,
                   anchor_lines, fs, hits, removed, log4a, fixed, skipped,
                   log4b, writes>>

\* lines 95-117: an option exists and the specifier is rewritten
FixImport ==
    /\ Attempt
    /\ FirstExisting(Options(hits[i][2]), fs, disk) # NoPath
    /\ fs[hits[i][1]].there
    /\ LET found == FirstExisting(Options(hits[i][2]), fs, disk)
           ptext == fs[hits[i][1]].lines
           ptext2 == Rewrite(ptext, hits[i][2], NewMod(found))
       IN  /\ ptext2 # ptext
           /\ exists' = found
           /\ fs' = [fs EXCEPT ![hits[i][1]].lines = ptext2]
           /\ fixed' = Append(fixed, <<hits[i][1], hits[i][2], NewMod(found)>>)
    /\ writes' = Append(writes, [file |-> hits[i][1], stage |-> "4B", hit |-> i])
    /\ count' = count + 1
    /\ cand' = hits[i][2].path
    /\ i' = i + 1
    /\ UNCHANGED <<envVars, mechVars, pc, exitCode, audit, checkerRuns,
                   anchor_lines, hits, removed, log4a, skipped, log4b>>

\* line 88: the loop runs out of hits
End4B ==
    /\ prog = "anchor_fix" /\ pc = "4B" /\ i > Len(hits)
    /\ pc' = "log"
    /\ UNCHANGED <<envVars, stage4BVars, mechVars, exitCode, audit,
                   checkerRuns, anchor_lines, fs, hits, i, removed, log4a,
                   writes>>

\* lines 121-136: write 04b_ts2307.txt, run the checker again, exit 0
WriteLog ==
    /\ prog = "anchor_fix" /\ pc = "log"
    /\ log4b' = Log4B(fixed, skipped)
    /\ checkerRuns' = checkerRuns + 1
    /\ exitCode' = 0
    /\ pc' = "done"
    /\ UNCHANGED <<envVars, mechVars, audit, anchor_lines, fs, hits, i,
                   removed, log4a, fixed, skipped, count, cand, exists, writes>>

\* the script is invoked again on the tree it left, and the checker names
\* the same anchors
RerunAnchorFix ==
    /\ prog = "anchor_fix" /\ pc = "done" /\ run = 1
    /\ run' = 2
    /\ fs0' = fs
    /\ pc' = "guard"
    /\ exitCode' = -1
    /\ audit' = <<>> /\ checkerRuns' = 0 /\ anchor_lines' = <<>>
    /\ hits' = <<>> /\ i' = 1 /\ removed' = <<>> /\ log4a' = <<>>
    /\ fixed' = <<>> /\ skipped' = <<>> /\ count' = 0
    /\ cand' = NoPath /\ exists' = NoPath /\ log4b' = <<>>
    /\ writes' = <<>>
    /\ UNCHANGED <<mechVars, prog, shim, output, disk, fs>>

----------------------------------------------------------------------------
(* The trees and checker outputs the runs start from *)

DirLine(n, d) == [src |-> n, dir |-> d, imp |-> NoImp]
ImpLine(n, q, mod) == [src |-> n, dir |-> FALSE, imp |-> [q |-> q, mod |-> mod]]

D2578(f, l) == [code |-> "TS2578", file |-> f, line |-> l, mod |-> NoMod]
D2307(f, m) == [code |-> "TS2307", file |-> f, line |-> 1, mod |-> m]
D6133(f, l) == [code |-> "TS6133", file |-> f, line |-> l, mod |-> NoMod]
DText == [code |-> "text", file |-> "", line |-> 0, mod |-> NoMod]

Rep(x, n) == [k \in 1..n |-> x]

\* module specifiers
ModUtil == [dot |-> TRUE, path |-> <<Nm("util", "")>>]            \* './util'
ModUtilJs == [dot |-> TRUE, path |-> <<Nm("util", ".js")>>]       \* './util.js'
ModUtilIndex == [dot |-> TRUE, path |-> <<Nm("util", ""), Nm("index", "")>>]
ModUtils == [dot |-> TRUE, path |-> <<Nm("utils", "")>>]          \* './utils'
ModUpUtil == [dot |-> FALSE, path |-> <<DotDot, Nm("util", "")>>] \* '../util'
ModReact == [dot |-> FALSE, path |-> <<Nm("react", "")>>]         \* 'react'

\* paths next to the source files
UtilTs == <<Nm("util", ".ts")>>
UtilTsx == <<Nm("util", ".tsx")>>
UtilIndexTs == <<Nm("util", ""), Nm("index", ".ts")>>
UtilIndexTsx == <<Nm("util", ""), Nm("index", ".tsx")>>
UtilsTs == <<Nm("utils", ".ts")>>
UpUtilTs == <<DotDot, Nm("util", ".ts")>>

Shims ==
    {NoFile} \cup {File(ls) : ls \in SeqsUpTo(ShimKinds, MaxShimLines)}

Scenario(sh, tree, others, out) ==
    [shim |-> sh, fs |-> tree, disk |-> others, output |-> out]

Tree(a, b) == [f \in Files |-> IF f = FileA THEN a ELSE b]

\* every shim, on a tree where both stages have something to change
ShimScenarios ==
    { Scenario(sh,
               Tree(File(<<DirLine(1, TRUE), ImpLine(2, "'", ModUtilJs)>>), NoFile),
               {UtilTs},
               <<DText, D2578(FileA, 1), D6133(FileA, 2), D2307(FileA, ModUtilJs)>>)
      : sh \in Shims }

\* src/a.ts of up to MaxLines lines, each with or without the directive, and
\* up to MaxHits TS2578 anchors into it, in any order, repeated or not
RemovalScenarios ==
    { Scenario(NoFile,
               Tree(File([k \in 1..n |-> DirLine(k, k \in ds)]), NoFile),
               {},
               out)
      : n \in 0..MaxLines, ds \in SUBSET (1..MaxLines),
        out \in SeqsUpTo({D2578(FileA, l) : l \in 0..(MaxLines + 1)}, MaxHits) }

\* a file that does not exist, named by both kinds of anchor
MissingFileScenarios ==
    { Scenario(NoFile,
               Tree(File(<<DirLine(1, TRUE)>>), NoFile),
               {UtilTs},
               out)
      : out \in { <<D2578(FileB, 1), D2578(FileA, 1)>>,
                  <<D2307(FileB, ModUtilJs)>>,
                  <<D2307(FileB, ModUtil), D2307(FileB, ModUtilJs)>> } }

\* ClaimAnchors + 1 directive lines and n distinct anchors, ascending or
\* descending, each on a line that bears the directive
Ascending(n) == [k \in 1..n |-> D2578(FileA, k)]
Descending(n) == [k \in 1..n |-> D2578(FileA, n + 1 - k)]

CapCounts == {Cap2578 - 1, Cap2578, Cap2578 + 1, ClaimAnchors}

CapScenarios ==
    { Scenario(NoFile,
               Tree(File([k \in 1..(ClaimAnchors + 1) |-> DirLine(k, TRUE)]), NoFile),
               {},
               out)
      : out \in {Ascending(n) : n \in CapCounts}
                \cup {Descending(n) : n \in CapCounts} }

\* src/a.ts importing four specifiers, any set of the paths they can resolve
\* to, and up to MaxHits TS2307 anchors
ImportMods == {ModUtil, ModUtilJs, ModUtilIndex, ModUpUtil, ModReact}

ImportFile ==
    File(<< ImpLine(1, "'", ModUtil), ImpLine(2, "\"", ModUtilJs),
            ImpLine(3, "'", ModUtilJs), ImpLine(4, "'", ModUtilIndex),
            ImpLine(5, "\"", ModReact), ImpLine(6, "'", ModUpUtil) >>)

ImportScenarios ==
    { Scenario(NoFile, Tree(ImportFile, NoFile), others \cup {UtilsTs}, out)
      : others \in SUBSET {UtilTs, UtilTsx, UtilIndexTs, UtilIndexTsx},
        out \in SeqsUpTo({D2307(FileA, m) : m \in ImportMods}, MaxHits) }

\* n relative anchors and then a package anchor; many package anchors
ImportCapScenarios ==
    { Scenario(NoFile, Tree(ImportFile, NoFile), {UtilTs, UpUtilTs}, out)
      : out \in { Rep(D2307(FileA, ModUtilJs), n) \o <<D2307(FileA, ModReact)>>
                  : n \in {Cap2307 - 1, Cap2307, Cap2307 + 1} }
                \cup { Rep(D2307(FileA, ModReact), n)
                       : n \in {CapSkipLog, CapSkipLog + 1} }
                \cup { <<D2307(FileA, ModUpUtil)>> } }

AnchorFixScenarios ==
    ShimScenarios \cup RemovalScenarios \cup MissingFileScenarios
    \cup CapScenarios \cup ImportScenarios \cup ImportCapScenarios

Init ==
    \E sc \in AnchorFixScenarios :
        /\ prog = "anchor_fix"
        /\ pc = "guard"
        /\ run = 1
        /\ exitCode = -1
        /\ shim = sc.shim
        /\ audit = <<>>
        /\ checkerRuns = 0
        /\ output = sc.output
        /\ anchor_lines = <<>>
        /\ fs = sc.fs
        /\ disk = sc.disk
        /\ hits = <<>>
        /\ i = 1
        /\ removed = <<>>
        /\ log4a = <<>>
        /\ fixed = <<>>
        /\ skipped = <<>>
        /\ count = 0
        /\ cand = NoPath
        /\ exists = NoPath
        /\ log4b = <<>>
        /\ writes = <<>>
        /\ fs0 = sc.fs
        /\ txt = <<>>
        /\ orig = <<>>
        /\ updated = <<>>

Next ==
    \/ GuardAbort
    \/ GuardPass
    \/ TypeCheck
    \/ Skip4AMissing
    \/ Skip4ANoDirective
    \/ Remove4A
    \/ End4A
    \/ SkipNonRelative
    \/ CapBreak
    \/ TargetMissing
    \/ ReadFails
    \/ NoRewrite
    \/ FixImport
    \/ End4B
    \/ WriteLog
    \/ RerunAnchorFix

Spec == Init /\ [][Next]_vars

----------------------------------------------------------------------------
(* Properties of anchor_fix.py *)

\* the text of the lines, without the specifiers stage 4B may rewrite
Srcs(lines) == [k \in 1..Len(lines) |-> lines[k].src]

\* the lines whose 1-based position is not in gone, in their order
Without(lines, gone) ==
    LET keep == SelectSeq([k \in 1..Len(lines) |-> k], LAMBDA k : k \notin gone)
    IN  [j \in 1..Len(keep) |-> lines[keep[j]]]

After4A == prog = "anchor_fix" /\ pc \in {"4B", "log", "done"}

\* the lines of file f that the hits h name
LinesNamed(h, f) == {h[k][2] : k \in {j \in 1..Len(h) : h[j][1] = f}}

\* C1: stage 4A is order-safe.  When a file has exactly two TS2578 anchors
\* among the first 20, at lines li < lj that both bear the directive in the
\* original file, the file after the stage is the original without the lines
\* originally at li and lj, whatever the order of the two anchors.
C1_OrderSafe ==
    (After4A /\ run = 1) =>
        \A f \in Files :
            LET h == Hits2578(anchor_lines)
                mine == {k \in 1..Len(h) : h[k][1] = f}
            IN  \A li, lj \in 1..Len(fs0[f].lines) :
                    ( /\ li < lj
                      /\ fs0[f].there
                      /\ Cardinality(mine) = 2
                      /\ LinesNamed(h, f) = {li, lj}
                      /\ fs0[f].lines[li].dir
                      /\ fs0[f].lines[lj].dir )
                    => Srcs(fs[f].lines) = Srcs(Without(fs0[f].lines, {li, lj}))

\* C2: suppression removal is idempotent.  A second run on the result of
\* the first, with the same anchors, removes no line and leaves every file
\* as the first run left it.
C2_RemovalIdempotent ==
    (After4A /\ run = 2) =>
        /\ removed = <<>>
        /\ \A f \in Files : Srcs(fs[f].lines) = Srcs(fs0[f].lines)

\* C3: the cap of stage 4A.  With 30 distinct TS2578 anchors, each on a line
\* that bears the directive in the original file, exactly the first 20 are
\* recorded as removed and each file is the original without the lines those
\* 20 anchors name.
C3_CapEnforced ==
    (After4A /\ run = 1) =>
        LET all == AllHits2578(anchor_lines)
            first == Take(all, Cap2578)
        IN  ( /\ Len(all) = ClaimAnchors
              /\ \A k1, k2 \in 1..Len(all) : k1 # k2 => all[k1] # all[k2]
              /\ \A k \in 1..Len(all) :
                    /\ fs0[all[k][1]].there
                    /\ Removable(fs0[all[k][1]].lines, all[k][2]) )
            => /\ removed = first
               /\ Len(removed) = Cap2578
               /\ \A f \in Files :
                    Srcs(fs[f].lines)
                        = Srcs(Without(fs0[f].lines, LinesNamed(first, f)))

BadShim == shim.there /\ (Forbidden(shim) \/ ~HasModuleDecl(shim))

\* C4: the shim guard is a hard gate.  With a shim that holds a forbidden
\* pattern the run ends with exit code 2, with a shim that holds no
\* top-level module declaration it ends with exit code 3; in both cases the
\* audit text is written, the checker is never invoked and no source file
\* is written.  A source file is written only in a run whose guard passed.
C4_ShimGuardGate ==
    prog = "anchor_fix" =>
        /\ BadShim =>
            /\ pc \in {"guard", "exit"}
            /\ checkerRuns = 0
            /\ writes = <<>>
            /\ fs = fs0
            /\ pc = "exit" =>
                /\ exitCode = (IF Forbidden(shim) THEN 2 ELSE 3)
                /\ audit # <<>>
        /\ (writes # <<>> \/ fs # fs0 \/ checkerRuns > 0) => ~BadShim

\* a run the guard ended, on a tree with a line stage 4A would have removed
C4_Witness ==
    /\ prog = "anchor_fix" /\ pc = "exit" /\ exitCode = 2
    /\ Forbidden(shim) /\ HasModuleDecl(shim)
    /\ \E k \in 1..Len(output) :
        /\ output[k].code = "TS2578"
        /\ Removable(fs[output[k].file].lines, output[k].line)

NoneOfFour(p) ==
    /\ ~PathExists(WithSuffix(p, ".ts"), fs, disk)
    /\ ~PathExists(WithSuffix(p, ".tsx"), fs, disk)
    /\ ~PathExists(Append(p, Nm("index", ".ts")), fs, disk)
    /\ ~PathExists(Append(p, Nm("index", ".tsx")), fs, disk)

\* C5: the end-to-end import repair.  src/a.ts imports './util', nothing
\* resolves './util', './utils.ts' exists and the checker reports the pair:
\* the run rewrites the specifier to './utils' and logs the fix.
C5_EndToEndRepair ==
    ( /\ prog = "anchor_fix" /\ run = 1 /\ pc = "done"
      /\ output = <<D2307(FileA, ModUtil)>>
      /\ NoneOfFour(ModUtil.path)
      /\ UtilsTs \in disk
      /\ \E k \in 1..Len(fs0[FileA].lines) : fs0[FileA].lines[k].imp.mod = ModUtil )
    => /\ <<"FIXED import:", FileA, ModUtil, ModUtils>> \in Range(log4b)
       /\ \A k \in 1..Len(fs0[FileA].lines) :
            fs0[FileA].lines[k].imp.mod = ModUtil
                => fs[FileA].lines[k].imp.mod = ModUtils

\* C6: a fix is applied at most once per run for an anchor.  No (file, line)
\* anchor has two lines removed on its behalf and no (file, specifier) pair
\* has two FIXED records.
C6_AtMostOncePerAnchor ==
    prog = "anchor_fix" =>
        /\ \A k1, k2 \in 1..Len(removed) : k1 # k2 => removed[k1] # removed[k2]
        /\ \A k1, k2 \in 1..Len(fixed) :
            k1 # k2 => <<fixed[k1][1], fixed[k1][2]>> # <<fixed[k2][1], fixed[k2][2]>>

C8_NonRelativeAlwaysSkipped ==
    (prog = "anchor_fix" /\ pc = "done") =>
        LET h == Hits2307(anchor_lines)
            pkg == {k \in 1..Len(h) : ~IsRelative(h[k][2])}
            rec == {k \in 1..Len(log4b) :
                        log4b[k][1] = "SKIP:" /\ log4b[k][4] = "non-relative"}
        IN  /\ Cardinality(rec) = Cardinality(pkg)
            /\ \A w \in Range(writes) : w.stage = "4B" => w.hit \notin pkg

----------------------------------------------------------------------------
(* remove_ts_expect.py *)

\* sorted(set(lines), reverse=True)
RECURSIVE SortedAscending(_)
SortedAscending(S) ==
    IF S = {} THEN <<>>
    ELSE LET m == CHOOSE x \in S : \A y \in S : x <= y
         IN  <<m>> \o SortedAscending(S \ {m})

RECURSIVE SortedDescending(_)
SortedDescending(S) ==
    IF S = {} THEN <<>>
    ELSE LET m == CHOOSE x \in S : \A y \in S : x >= y
         IN  <<m>> \o SortedDescending(S \ {m})

\* the keys of byfile, in the order the dict got them
ByFileKeys(h) ==
    LET firsts == {k \in 1..Len(h) : \A j \in 1..(k - 1) : h[j][1] # h[k][1]}
        nth(n) == CHOOSE x \in firsts : Cardinality({y \in firsts : y < x}) = n - 1
    IN  [n \in 1..Cardinality(firsts) |-> h[nth(n)][1]]

\* lines 31-36: txt after the loop over lines_sorted
RECURSIVE PopEach(_, _)
PopEach(lines, lns) ==
    IF lns = <<>> THEN lines
    ELSE PopEach(RemoveLine(lines, Head(lns)), Tail(lns))

\* lines 31-36: the line numbers appended to removed by the loop
RECURSIVE PoppedBy(_, _)
PoppedBy(lines, lns) ==
    IF lns = <<>> THEN <<>>
    ELSE (IF Removable(lines, Head(lns)) THEN <<Head(lns)>> ELSE <<>>)
         \o PoppedBy(RemoveLine(lines, Head(lns)), Tail(lns))

removeRest == <<shim, audit, checkerRuns, anchor_lines, disk, log4a, fixed,
                skipped, count, cand, exists, log4b, txt, orig, updated>>

\* lines 12-23: read typecheck_after.txt, collect and cap the hits
ReadHits ==
    /\ prog = "remove_ts_expect" /\ pc = "read"
    /\ hits' = Take(AllHits2578(output), CapRemove)
    /\ i' = 1
    /\ removed' = <<>>
    /\ pc' = "files"
    /\ UNCHANGED <<removeRest, prog, run, exitCode, output, fs, writes, fs0>>

\* lines 24-27: the file does not exist
SkipMissingFile ==
    /\ prog = "remove_ts_expect" /\ pc = "files" /\ i <= Len(ByFileKeys(hits))
    /\ ~fs[ByFileKeys(hits)[i]].there
    /\ i' = i + 1
    /\ UNCHANGED <<removeRest, prog, pc, run, exitCode, output, fs, hits,
                   removed, writes, fs0>>

\* lines 24-37: no anchored line of the file bears the directive
LeaveFile ==
    /\ prog = "remove_ts_expect" /\ pc = "files" /\ i <= Len(ByFileKeys(hits))
    /\ LET f == ByFileKeys(hits)[i]
           lines_sorted == SortedDescending(LinesNamed(hits, f))
       IN  /\ fs[f].there
           /\ PoppedBy(fs[f].lines, lines_sorted) = <<>>
    /\ i' = i + 1
    /\ UNCHANGED <<removeRest, prog, pc, run, exitCode, output, fs, hits,
                   removed, writes, fs0>>

\* lines 24-38: pop the anchored lines, highest first, and write the file
RemoveInFile ==
    /\ prog = "remove_ts_expect" /\ pc = "files" /\ i <= Len(ByFileKeys(hits))
    /\ LET f == ByFileKeys(hits)[i]
           lines_sorted == SortedDescending(LinesNamed(hits, f))
           popped == PoppedBy(fs[f].lines, lines_sorted)
       IN  /\ fs[f].there
           /\ popped # <<>>
           /\ fs' = [fs EXCEPT ![f].lines = PopEach(@, lines_sorted)]
           /\ removed' = removed \o [k \in 1..Len(popped) |-> <<f, popped[k]>>]
           /\ writes' = Append(writes, [file |-> f, stage |-> "remove", hit |-> i])
    /\ i' = i + 1
    /\ UNCHANGED <<removeRest, prog, pc, run, exitCode, output, hits, fs0>>

\* lines 40-42: print the report
ReportRemoved ==
    /\ prog = "remove_ts_expect" /\ pc = "files" /\ i > Len(ByFileKeys(hits))
    /\ exitCode' = 0
    /\ pc' = "done"
    /\ UNCHANGED <<removeRest, prog, run, output, fs, hits, i, removed,
                   writes, fs0>>

\* the script is invoked again with the same OUTDIR: typecheck_after.txt is
\* the file it read before
RerunRemove ==
    /\ prog = "remove_ts_expect" /\ pc = "done" /\ run = 1
    /\ run' = 2
    /\ fs0' = fs
    /\ pc' = "read"
    /\ exitCode' = -1
    /\ hits' = <<>> /\ i' = 1 /\ removed' = <<>> /\ writes' = <<>>
    /\ UNCHANGED <<removeRest, prog, output, fs>>

\* src/a.ts of up to MaxLines lines, src/b.ts absent or of two directive
\* lines, and up to MaxHits TS2578 lines in typecheck_after.txt
RemoveScenarios ==
    { Scenario(NoFile,
               Tree(File([k \in 1..n |-> DirLine(k, k \in ds)]), b),
               {},
               out)
      : n \in 0..MaxLines, ds \in SUBSET (1..MaxLines),
        b \in {NoFile, File(<<DirLine(1, TRUE), DirLine(2, TRUE)>>)},
        out \in SeqsUpTo({D2578(FileA, l) : l \in 0..(MaxLines + 1)}
                         \cup {D2578(FileB, 1), DText}, MaxHits) }

\* CapRemove - 1 hits on one line, then up to two more hits
RemoveCapScenarios ==
    { Scenario(NoFile,
               Tree(File([k \in 1..3 |-> DirLine(k, TRUE)]), NoFile),
               {},
               Rep(D2578(FileA, 3), CapRemove - 1) \o tail)
      : tail \in SeqsUpTo({D2578(FileA, 1), D2578(FileA, 2)}, 2) }

InitRemove ==
    \E sc \in RemoveScenarios \cup RemoveCapScenarios :
        /\ prog = "remove_ts_expect"
        /\ pc = "read"
        /\ run = 1
        /\ exitCode = -1
        /\ shim = sc.shim
        /\ audit = <<>>
        /\ checkerRuns = 0
        /\ output = sc.output
        /\ anchor_lines = <<>>
        /\ fs = sc.fs
        /\ disk = sc.disk
        /\ hits = <<>>
        /\ i = 1
        /\ removed = <<>>
        /\ log4a = <<>>
        /\ fixed = <<>>
        /\ skipped = <<>>
        /\ count = 0
        /\ cand = NoPath
        /\ exists = NoPath
        /\ log4b = <<>>
        /\ writes = <<>>
        /\ fs0 = sc.fs
        /\ txt = <<>>
        /\ orig = <<>>
        /\ updated = <<>>

NextRemove ==
    \/ ReadHits
    \/ SkipMissingFile
    \/ LeaveFile
    \/ RemoveInFile
    \/ ReportRemoved
    \/ RerunRemove

SpecRemove == InitRemove /\ [][NextRemove]_vars

\* the lines of f named by the first 200 TS2578 lines of typecheck_after.txt
\* that bear the directive in the file as the run found it
AnchoredDirectives(f) ==
    LET first == Take(AllHits2578(output), CapRemove)
    IN  {k \in 1..Len(fs0[f].lines) :
            /\ \E j \in 1..Len(first) : first[j] = <<f, k>>
            /\ fs0[f].lines[k].dir}

\* C10: remove_ts_expect.py removes exactly the originally anchored lines.
\* When the run is over, every file is the file as the run found it without
\* the lines that were anchored (among the first 200 hits) and bore the
\* directive, the other lines in their order; a file is written once if a
\* line of it was removed, and not at all otherwise.
C10_RemovesAnchoredLines ==
    (prog = "remove_ts_expect" /\ pc = "done") =>
        \A f \in Files :
            /\ fs[f].there = fs0[f].there
            /\ fs[f].lines = Without(fs0[f].lines, AnchoredDirectives(f))
            /\ Cardinality({k \in 1..Len(writes) : writes[k].file = f})
                = (IF AnchoredDirectives(f) = {} THEN 0 ELSE 1)
            /\ {removed[k][2] : k \in {j \in 1..Len(removed) : removed[j][1] = f}}
                = AnchoredDirectives(f)

\* two adjacent directive lines were anchored and removed, a third line that
\* bears the directive was not anchored and is still there
C10_Witness ==
    /\ prog = "remove_ts_expect" /\ pc = "done" /\ run = 1
    /\ {1, 2} \subseteq AnchoredDirectives(FileA)
    /\ Len(fs0[FileA].lines) = 3
    /\ fs[FileA].lines = <<fs0[FileA].lines[3]>>
    /\ fs0[FileA].lines[3].dir

\* remove_ts_expect.py run twice with the same OUTDIR: the second run
\* removes nothing
RemoveTwiceSame ==
    (prog = "remove_ts_expect" /\ run = 2) => (removed = <<>> /\ fs = fs0)

----------------------------------------------------------------------------
(* mech_fix.py: the mechanical import fixes.  The pieces of text are       *)
(*   "import"     an import of some other module, 'import x from "y";'     *)
(*   "code"       text that matches none of the patterns                   *)
(*   "view("      text that holds 'view('                                  *)
(*   "<"          text that holds '<'                                      *)
(*   ReactStmt    the statement 'import React from "react";'               *)
(*   "fromreact"  another import that ends with from 'react'               *)
(*   ViewStmt     the statement 'import { view } from "@forge/ui";'        *)
(*   "fromforge"  another import of view from '@forge/ui'                  *)

ReactStmt == "import React from \"react\";"
ViewStmt == "import { view } from \"@forge/ui\";"

Pieces == {"import", "code", "view(", "<", ReactStmt, "fromreact", ViewStmt, "fromforge"}
ImportPieces == {"import", ReactStmt, "fromreact", ViewStmt, "fromforge"}

PageTs == "src/admin/page.ts"
PageTsx == "src/admin/page.tsx"
LibTs == "src/lib.ts"
MechFiles == {PageTs, PageTsx, LibTs}

\* file_pat = r'(src/[^:(]+\.(?:ts|tsx))' with nothing after the group: on a
\* name that ends with .tsx the alternative 'ts' matches first, and the
\* match is the name without its last letter
FilePat(f) == IF f = PageTsx THEN PageTs ELSE f

\* sorted(set(files2)) lists the names in this order
MechOrder == <<PageTs, PageTsx, LibTs>>

\* p.suffix
Suffix(f) == IF f = PageTsx THEN ".tsx" ELSE ".ts"

\* 'src/admin' in str(p)
InAdmin(f) == f \in {PageTs, PageTsx}

\* piece in txt
Holds(t, piece) ==
    \E k \in 1..Len(t) : \E j \in 1..Len(t[k].toks) : t[k].toks[j] = piece

\* re.search(r"from\s+['\"]react['\"]", txt)
FromReact(t) == Holds(t, ReactStmt) \/ Holds(t, "fromreact")

\* re.search(r"import\s+\{[^}]*\bview\b[^}]*\}\s+from\s+['\"]@forge/ui['\"]", txt)
ImportsView(t) == Holds(t, ViewStmt) \/ Holds(t, "fromforge")

\* uses_view
UsesView(t, f) ==
    Holds(t, "view(") \/ (Holds(t, "<") /\ Suffix(f) = ".tsx" /\ InAdmin(f))

\* l.startswith('import ')
StartsWithImport(l) == l.toks # <<>> /\ Head(l.toks) \in ImportPieces

\* last_imp + 1: the 0-based index the statement is inserted at
InsertIndex(lines) ==
    LET seen == {k \in 1..Min(Len(lines), ImportScan) : StartsWithImport(lines[k])}
    IN  IF seen = {} THEN 0 ELSE CHOOSE k \in seen : \A j \in seen : j <= k

\* list.insert(idx, x), idx 0-based
InsertAt(lines, idx, x) ==
    SubSeq(lines, 1, idx) \o <<x>> \o SubSeq(lines, idx + 1, Len(lines))

\* ''.join(lines), as the lines of the text: a line without a newline runs
\* into the line after it
RECURSIVE Joined(_)
Joined(lines) ==
    IF Len(lines) < 2 THEN lines
    ELSE IF lines[1].nl THEN <<lines[1]>> \o Joined(Tail(lines))
    ELSE Joined(<<[toks |-> lines[1].toks \o lines[2].toks, nl |-> lines[2].nl]>>
                \o SubSeq(lines, 3, Len(lines)))

\* ensure_import
EnsureImport(t, imp_line) ==
    IF Holds(t, imp_line) THEN t
    ELSE Joined(InsertAt(t, InsertIndex(t), [toks |-> <<imp_line>>, nl |-> TRUE]))

\* lines 57-58
AfterReact(t, f) ==
    IF Suffix(f) = ".tsx" /\ ~FromReact(t) THEN EnsureImport(t, ReactStmt) ELSE t

\* lines 59-61
AfterView(t, f) ==
    IF UsesView(t, f) /\ ~ImportsView(t) THEN EnsureImport(t, ViewStmt) ELSE t

\* files_sorted
FilesSorted(out) ==
    SelectSeq(MechOrder,
              LAMBDA f : \E k \in 1..Len(out) :
                            out[k].code # "text" /\ FilePat(out[k].file) = f)

mechRest == <<shim, audit, checkerRuns, anchor_lines, disk, removed, log4a,
              fixed, skipped, count, cand, exists, log4b>>

\* lines 16-35: read the anchors, list the files they name
ListFiles ==
    /\ prog = "mech_fix" /\ pc = "anchors"
    /\ hits' = FilesSorted(output)
    /\ i' = 1
    /\ updated' = <<>>
    /\ pc' = "files"
    /\ UNCHANGED <<mechRest, prog, run, exitCode, output, fs, writes, fs0, txt,
                   orig>>

\* lines 36-39: the file does not exist
MechSkipMissing ==
    /\ prog = "mech_fix" /\ pc = "files" /\ i <= Len(hits)
    /\ ~fs[hits[i]].there
    /\ i' = i + 1
    /\ UNCHANGED <<mechRest, prog, pc, run, exitCode, output, fs, hits, writes,
                   fs0, txt, orig, updated>>

\* lines 36-43: read the file
ReadFile ==
    /\ prog = "mech_fix" /\ pc = "files" /\ i <= Len(hits)
    /\ fs[hits[i]].there
    /\ Suffix(hits[i]) \in {".ts", ".tsx"}
    /\ txt' = fs[hits[i]].lines
    /\ orig' = fs[hits[i]].lines
    /\ pc' = "react"
    /\ UNCHANGED <<mechRest, prog, run, exitCode, output, fs, hits, i, writes,
                   fs0, updated>>

\* lines 57-58
ReactImport ==
    /\ prog = "mech_fix" /\ pc = "react"
    /\ txt' = AfterReact(txt, hits[i])
    /\ pc' = "view"
    /\ UNCHANGED <<mechRest, prog, run, exitCode, output, fs, hits, i, writes,
                   fs0, orig, updated>>

\* lines 59-61
ViewImport ==
    /\ prog = "mech_fix" /\ pc = "view"
    /\ txt' = AfterView(txt, hits[i])
    /\ pc' = "write"
    /\ UNCHANGED <<mechRest, prog, run, exitCode, output, fs, hits, i, writes,
                   fs0, orig, updated>>

\* lines 62-64: the text changed
WriteFile ==
    /\ prog = "mech_fix" /\ pc = "write"
    /\ txt # orig
    /\ fs' = [fs EXCEPT ![hits[i]].lines = txt]
    /\ writes' = Append(writes, [file |-> hits[i], stage |-> "mech", hit |-> i])
    /\ updated' = Append(updated, hits[i])
    /\ i' = i + 1
    /\ pc' = "files"
    /\ UNCHANGED <<mechRest, prog, run, exitCode, output, hits, fs0, txt, orig>>

\* line 62: the text did not change
KeepFile ==
    /\ prog = "mech_fix" /\ pc = "write"
    /\ txt = orig
    /\ i' = i + 1
    /\ pc' = "files"
    /\ UNCHANGED <<mechRest, prog, run, exitCode, output, fs, hits, writes,
                   fs0, txt, orig, updated>>

\* lines 65-124: the reports and the checker run, which change no source file
MechReport ==
    /\ prog = "mech_fix" /\ pc = "files" /\ i > Len(hits)
    /\ exitCode' = 0
    /\ pc' = "done"
    /\ UNCHANGED <<mechRest, prog, run, output, fs, hits, i, writes, fs0, txt,
                   orig, updated>>

\* the script is invoked again: it reads the same input file
RerunMech ==
    /\ prog = "mech_fix" /\ pc = "done" /\ run = 1
    /\ run' = 2
    /\ fs0' = fs
    /\ pc' = "anchors"
    /\ exitCode' = -1
    /\ hits' = <<>> /\ i' = 1 /\ writes' = <<>>
    /\ txt' = <<>> /\ orig' = <<>> /\ updated' = <<>>
    /\ UNCHANGED <<mechRest, prog, output, fs>>

Text(pieces, lastNl) ==
    [k \in 1..Len(pieces) |->
        [toks |-> <<pieces[k]>>, nl |-> (k < Len(pieces) \/ lastNl)]]

MechTree(f, content) == [g \in MechFiles |-> IF g = f THEN content ELSE NoFile]

\* one file of up to MaxMechLines lines, with or without a final newline,
\* and anchors that name it or not
MechScenarios ==
    { Scenario(NoFile, MechTree(f, File(Text(ps, lastNl))), {},
               out)
      : f \in MechFiles, ps \in SeqsUpTo(Pieces, MaxMechLines),
        lastNl \in BOOLEAN,
        out \in { <<DText, D6133(LibTs, 1), D6133(PageTsx, 1)>>,
                  <<D6133(PageTs, 1)>> } }

\* an import line just inside and just outside the first ImportScan lines
MechScanScenarios ==
    { Scenario(NoFile,
               MechTree(LibTs, File(Text(Rep("view(", n) \o <<"import", "code">>, TRUE))),
               {},
               <<D6133(LibTs, 1)>>)
      : n \in {ImportScan - 1, ImportScan} }

InitMech ==
    \E sc \in MechScenarios \cup MechScanScenarios :
        /\ prog = "mech_fix"
        /\ pc = "anchors"
        /\ run = 1
        /\ exitCode = -1
        /\ shim = sc.shim
        /\ audit = <<>>
        /\ checkerRuns = 0
        /\ output = sc.output
        /\ anchor_lines = <<>>
        /\ fs = sc.fs
        /\ disk = sc.disk
        /\ hits = <<>>
        /\ i = 1
        /\ removed = <<>>
        /\ log4a = <<>>
        /\ fixed = <<>>
        /\ skipped = <<>>
        /\ count = 0
        /\ cand = NoPath
        /\ exists = NoPath
        /\ log4b = <<>>
        /\ writes = <<>>
        /\ fs0 = sc.fs
        /\ txt = <<>>
        /\ orig = <<>>
        /\ updated = <<>>

NextMech ==
    \/ ListFiles
    \/ MechSkipMissing
    \/ ReadFile
    \/ ReactImport
    \/ ViewImport
    \/ WriteFile
    \/ KeepFile
    \/ MechReport
    \/ RerunMech

SpecMech == InitMech /\ [][NextMech]_vars

\* the text of each line
Toks(lines) == [k \in 1..Len(lines) |-> lines[k].toks]

\* what ensure_import is to return for text t and statement imp_line: t when
\* the statement occurs in it, else t with the statement as one more line
\* after the last import line among the first 80 lines, or as the first line
Ensured(t, imp_line) ==
    IF Holds(t, imp_line) THEN Toks(t)
    ELSE LET seen == {k \in 1..Min(Len(t), ImportScan) : StartsWithImport(t[k])}
             at == IF seen = {} THEN 0 ELSE CHOOSE k \in seen : \A j \in seen : j <= k
         IN  SubSeq(Toks(t), 1, at) \o <<(<<imp_line>>)>> \o SubSeq(Toks(t), at + 1, Len(t))

\* the second pass of mech_fix.py changes no file and writes none
MechPassIdempotent ==
    (prog = "mech_fix" /\ run = 2) => (fs = fs0 /\ updated = <<>> /\ writes = <<>>)

\* C9: missing-import insertion is idempotent and inserts one line.  A second
\* pass over the output of a pass changes nothing and writes nothing.  After
\* the React step, and after the view step of a file the React step does
\* not apply to, the text is the text read, or the text read with the
\* statement as exactly one more line right after the last line that starts
\* with 'import ' among the first 80 lines (the first line if there is none).
C9_ImportInsertion ==
    prog = "mech_fix" =>
        /\ run = 2 => (fs = fs0 /\ updated = <<>> /\ writes = <<>>)
        /\ pc = "view" =>
            \/ txt = orig
            \/ Toks(txt) = Ensured(orig, ReactStmt)
        /\ (pc = "write" /\ Suffix(hits[i]) = ".ts") =>
            \/ txt = orig
            \/ Toks(txt) = Ensured(orig, ViewStmt)


====
